---- MODULE Spec2Model ----
(***************************************************************************)
(* Model of the EVM interpreter's shared cache of jump destinations and    *)
(* subroutine entry points (ethcore/evm/src/interpreter/shared_cache.rs):  *)
(* the linear scan find_jump_and_sub_destinations, the bit-packed          *)
(* SubLengthBits index (store / find_length) and the mutex-guarded,        *)
(* byte-bounded LRU table behind SharedCache::jump_and_sub_destinations.   *)
(*                                                                         *)
(* Three specifications over one set of variables:                         *)
(*   ScanSpec    one run of find_jump_and_sub_destinations, one loop       *)
(*               iteration per step, followed by find_length queries;      *)
(*   LengthSpec  store on an empty index followed by find_length;          *)
(*   Spec        threads calling jump_and_sub_destinations concurrently.   *)
(***************************************************************************)
EXTENDS Integers, Sequences, FiniteSets, TLC

----------------------------------------------------------------------------
(* Bounds of the model *)

\* longest code analysed in ScanSpec
MaxCodeLen == 4
\* largest start offset and largest boundary offset drawn in LengthSpec
MaxOffset == 4
\* largest length stored in LengthSpec
MaxLength == 12
\* calls to jump_and_sub_destinations in one behaviour of Spec
MaxCalls == 3
\* calls to jump_and_sub_destinations in one behaviour of LruSpec
MaxLruCalls == 4
\* calls to jump_and_sub_destinations in one behaviour of FairSpec
MaxFairCalls == 3

----------------------------------------------------------------------------
(* Instruction classifier (super::super::instructions) *)

STOP == 0
JUMPDEST == 91
BEGINSUB == 92
PUSH1 == 96
PUSH2 == PUSH1 + 1
PUSH32 == 127
\* 0xcc, a byte for which Instruction::from_u8 is None
UNKNOWN == 204

\* the byte values codes are drawn from
Bytes == {STOP, JUMPDEST, BEGINSUB, PUSH1, PUSH2, UNKNOWN}

\* Option<T> is the empty set (None) or a singleton (Some)
None == {}
Some(x) == {x}
Unwrap(o) == CHOOSE x \in o : TRUE

from_u8(b) ==
  IF b \in ({STOP, JUMPDEST, BEGINSUB} \cup (PUSH1..PUSH32)) THEN Some(b) ELSE None

push_bytes(instruction) ==
  IF instruction >= PUSH1 /\ instruction <= PUSH32
  THEN Some(instruction - PUSH1 + 1)
  ELSE None

----------------------------------------------------------------------------
(* bit_set::BitSet: the set of bits and the capacity of its storage, a     *)
(* whole number of 32-bit blocks                                           *)

VARIABLE shrink_exact
  \* how BitSet::shrink_to_fit leaves capacity(): TRUE when the storage is
  \* cut to the last non-zero block, FALSE when the allocation is kept.
  \* Fixed by the build (bit-set version, allocator), so fixed in a behaviour.

BlockBits == 32

MaxOf(S) == CHOOSE m \in S : \A x \in S : x <= m
Larger(a, b) == IF a >= b THEN a ELSE b

with_capacity(nbits) ==
  [bits |-> {}, cap |-> BlockBits * ((nbits + BlockBits - 1) \div BlockBits)]

insert(s, value) ==
  [bits |-> s.bits \cup {value},
   cap  |-> Larger(s.cap, BlockBits * ((value \div BlockBits) + 1))]

contains(s, value) == value \in s.bits

capacity(s) == s.cap

shrink_to_fit(s) ==
  [bits |-> s.bits,
   cap  |-> IF shrink_exact
            THEN (IF s.bits = {} THEN 0
                  ELSE BlockBits * ((MaxOf(s.bits) \div BlockBits) + 1))
            ELSE s.cap]

----------------------------------------------------------------------------
(* SubLengthBits *)

\* mem::size_of::<usize>() * 8
WordBits == 64

SubLengthBits_new(code) == with_capacity(Len(code))

RECURSIVE store_loop(_, _, _)
store_loop(s, l, bit) ==
  IF l > 0
  THEN store_loop(IF l % 2 = 1 THEN insert(s, bit) ELSE s, l \div 2, bit + 1)
  ELSE s

\* store with the first bit written one position late
store_Shifted(s, sub_start, sub_length) == store_loop(s, sub_length, sub_start + 1)

store(s, sub_start, sub_length) == store_loop(s, sub_length, sub_start)

RECURSIVE find_length_loop(_, _, _, _, _)
find_length_loop(s, sub_start, begin_subs, length, bit) ==
  IF /\ bit < WordBits - 1
     /\ sub_start + length < capacity(begin_subs)
     /\ ~contains(begin_subs, sub_start + length)
  THEN find_length_loop(s, sub_start, begin_subs,
         \* length |= contains(sub_start + bit) << bit, with bit already advanced;
         \* every bit of length so far is below this one, so the OR is a sum
         IF contains(s, sub_start + bit + 1) THEN length + 2^(bit + 1) ELSE length,
         bit + 1)
  ELSE length

\* find_length without the seed from the bit at sub_start
find_length_NoSeed(s, sub_start, begin_subs) ==
  find_length_loop(s, sub_start, begin_subs, 0, 0)

find_length(s, sub_start, begin_subs) ==
  find_length_loop(s, sub_start, begin_subs,
                   IF contains(s, sub_start) THEN 1 ELSE 0, 0)

----------------------------------------------------------------------------
(* SharedCache::find_jump_and_sub_destinations *)

\* the locals of the function before the loop; reads and stores record the
\* positions read from code and the arguments of the calls to store
ScanStart(code) ==
  [code            |-> code,
   jump_dests      |-> with_capacity(Len(code)),
   sub_entrypoints |-> with_capacity(Len(code)),
   sub_lengths     |-> SubLengthBits_new(code),
   position        |-> 0,
   sub_start       |-> 0,
   reads           |-> {},
   stores          |-> << >>]

\* the loop body without the push skip: every byte is classified
ScanIter_NoSkip(st) ==
  LET instruction == from_u8(st.code[st.position + 1])
      rd == [st EXCEPT !.reads = @ \cup {st.position}]
  IN  IF instruction = None
      THEN [rd EXCEPT !.position = @ + 1]
      ELSE IF Unwrap(instruction) = JUMPDEST
      THEN [rd EXCEPT !.jump_dests = insert(@, st.position),
                      !.position = @ + 1]
      ELSE IF Unwrap(instruction) = BEGINSUB
      THEN [rd EXCEPT !.sub_entrypoints = insert(@, st.position),
                      !.sub_lengths = store(@, st.sub_start, st.position - st.sub_start),
                      !.stores = Append(@, <<st.sub_start, st.position - st.sub_start>>),
                      !.sub_start = st.position,
                      !.position = @ + 1]
      ELSE [rd EXCEPT !.position = @ + 1]

\* the loop body with an unrecognized byte ending the scan
ScanIter_UnknownAborts(st) ==
  LET instruction == from_u8(st.code[st.position + 1])
      rd == [st EXCEPT !.reads = @ \cup {st.position}]
  IN  IF instruction = None
      THEN [rd EXCEPT !.position = Len(st.code)]
      ELSE IF Unwrap(instruction) = JUMPDEST
      THEN [rd EXCEPT !.jump_dests = insert(@, st.position),
                      !.position = @ + 1]
      ELSE IF Unwrap(instruction) = BEGINSUB
      THEN [rd EXCEPT !.sub_entrypoints = insert(@, st.position),
                      !.sub_lengths = store(@, st.sub_start, st.position - st.sub_start),
                      !.stores = Append(@, <<st.sub_start, st.position - st.sub_start>>),
                      !.sub_start = st.position,
                      !.position = @ + 1]
      ELSE IF push_bytes(Unwrap(instruction)) # None
      THEN [rd EXCEPT !.position = @ + Unwrap(push_bytes(Unwrap(instruction))) + 1]
      ELSE [rd EXCEPT !.position = @ + 1]

\* the loop body recording the offset after a JUMPDEST
ScanIter_InsertNext(st) ==
  LET instruction == from_u8(st.code[st.position + 1])
      rd == [st EXCEPT !.reads = @ \cup {st.position}]
  IN  IF instruction = None
      THEN [rd EXCEPT !.position = @ + 1]
      ELSE IF Unwrap(instruction) = JUMPDEST
      THEN [rd EXCEPT !.jump_dests = insert(@, st.position + 1),
                      !.position = @ + 1]
      ELSE IF Unwrap(instruction) = BEGINSUB
      THEN [rd EXCEPT !.sub_entrypoints = insert(@, st.position),
                      !.sub_lengths = store(@, st.sub_start, st.position - st.sub_start),
                      !.stores = Append(@, <<st.sub_start, st.position - st.sub_start>>),
                      !.sub_start = st.position,
                      !.position = @ + 1]
      ELSE IF push_bytes(Unwrap(instruction)) # None
      THEN [rd EXCEPT !.position = @ + Unwrap(push_bytes(Unwrap(instruction))) + 1]
      ELSE [rd EXCEPT !.position = @ + 1]

\* the loop body with BEGINSUB recorded as a jump destination as well
ScanIter_BeginsubAlsoJumpdest(st) ==
  LET instruction == from_u8(st.code[st.position + 1])
      rd == [st EXCEPT !.reads = @ \cup {st.position}]
  IN  IF instruction = None
      THEN [rd EXCEPT !.position = @ + 1]
      ELSE IF Unwrap(instruction) = JUMPDEST
      THEN [rd EXCEPT !.jump_dests = insert(@, st.position),
                      !.position = @ + 1]
      ELSE IF Unwrap(instruction) = BEGINSUB
      THEN [rd EXCEPT !.jump_dests = insert(@, st.position),
                      !.sub_entrypoints = insert(@, st.position),
                      !.sub_lengths = store(@, st.sub_start, st.position - st.sub_start),
                      !.stores = Append(@, <<st.sub_start, st.position - st.sub_start>>),
                      !.sub_start = st.position,
                      !.position = @ + 1]
      ELSE IF push_bytes(Unwrap(instruction)) # None
      THEN [rd EXCEPT !.position = @ + Unwrap(push_bytes(Unwrap(instruction))) + 1]
      ELSE [rd EXCEPT !.position = @ + 1]

\* the loop body with a byte that is no instruction leaving the cursor in place
ScanIter_UnknownStalls(st) ==
  LET instruction == from_u8(st.code[st.position + 1])
      rd == [st EXCEPT !.reads = @ \cup {st.position}]
  IN  IF instruction = None
      THEN rd
      ELSE IF Unwrap(instruction) = JUMPDEST
      THEN [rd EXCEPT !.jump_dests = insert(@, st.position),
                      !.position = @ + 1]
      ELSE IF Unwrap(instruction) = BEGINSUB
      THEN [rd EXCEPT !.sub_entrypoints = insert(@, st.position),
                      !.sub_lengths = store(@, st.sub_start, st.position - st.sub_start),
                      !.stores = Append(@, <<st.sub_start, st.position - st.sub_start>>),
                      !.sub_start = st.position,
                      !.position = @ + 1]
      ELSE IF push_bytes(Unwrap(instruction)) # None
      THEN [rd EXCEPT !.position = @ + Unwrap(push_bytes(Unwrap(instruction))) + 1]
      ELSE [rd EXCEPT !.position = @ + 1]

\* the body of the while loop
ScanIter(st) ==
  LET instruction == from_u8(st.code[st.position + 1])
      rd == [st EXCEPT !.reads = @ \cup {st.position}]
  IN  IF instruction = None
      THEN [rd EXCEPT !.position = @ + 1]
      ELSE IF Unwrap(instruction) = JUMPDEST
      THEN [rd EXCEPT !.jump_dests = insert(@, st.position),
                      !.position = @ + 1]
      ELSE IF Unwrap(instruction) = BEGINSUB
      THEN [rd EXCEPT !.sub_entrypoints = insert(@, st.position),
                      !.sub_lengths = store(@, st.sub_start, st.position - st.sub_start),
                      !.stores = Append(@, <<st.sub_start, st.position - st.sub_start>>),
                      !.sub_start = st.position,
                      !.position = @ + 1]
      ELSE IF push_bytes(Unwrap(instruction)) # None
      THEN [rd EXCEPT !.position = @ + Unwrap(push_bytes(Unwrap(instruction))) + 1]
      ELSE [rd EXCEPT !.position = @ + 1]

\* the store after the loop
ScanFinalStore(st) ==
  [st EXCEPT !.sub_lengths = store(@, st.sub_start, st.position - st.sub_start),
             !.stores = Append(@, <<st.sub_start, st.position - st.sub_start>>)]

\* the three shrink_to_fit calls and the CacheItem returned
ScanItem(st) ==
  [jump_destination |-> shrink_to_fit(st.jump_dests),
   sub_entrypoint   |-> shrink_to_fit(st.sub_entrypoints),
   sub_length       |-> shrink_to_fit(st.sub_lengths)]

RECURSIVE scan_loop(_)
scan_loop(st) ==
  IF st.position < Len(st.code) THEN scan_loop(ScanIter(st)) ELSE st

find_jump_and_sub_destinations(code) ==
  ScanItem(ScanFinalStore(scan_loop(ScanStart(code))))

----------------------------------------------------------------------------
(* ScanSpec: one run of find_jump_and_sub_destinations, then find_length   *)

VARIABLES
  scan,       \* the locals of find_jump_and_sub_destinations
  scan_pc,    \* "off" | "loop" | "stored" | "done"
  item,       \* the CacheItem returned (None before)
  fl_start,   \* the sub_start of the last find_length query (None before)
  fl_result   \* its result

scanVars == <<scan, scan_pc, item, fl_start, fl_result>>

\* LengthSpec: one store on an empty index and one find_length
VARIABLES
  sl_index,   \* the SubLengthBits under test
  sl_start,   \* the start offset stored at and read from
  sl_length,  \* the length stored
  sl_bounds,  \* the BitSet of boundaries given to find_length
  sl_result,  \* what find_length returned (None before)
  sl_pc       \* "off" | "new" | "stored" | "found"

lenVars == <<sl_index, sl_start, sl_length, sl_bounds, sl_result, sl_pc>>

\* Spec: the SharedCache and the threads calling it
VARIABLES
  jump_destinations, \* the MemoryLruCache behind the mutex
  lock,       \* the thread holding the mutex (None when free)
  pc,         \* where each thread is in jump_and_sub_destinations
  call,       \* each thread's arguments: code_hash and code
  d,          \* each thread's local d, the CacheItem it computed
  ret,        \* what each thread's last call returned
  runs,       \* calls of find_jump_and_sub_destinations made by the current call
  hit,        \* whether the current call found its hash in the table
  passed,     \* for each hash, the codes passed together with it so far
  n_calls,    \* calls started so far
  n_ins,      \* inserts made so far
  last_ins,   \* for each hash, the number of the last insert under it
  evicted,    \* the hashes whose entry an insert has evicted
  acq,        \* lock() calls made by each thread's current call
  fits,       \* whether the value of the last insert was within max_size
  used_order  \* the hashes inserted or hit so far, the latest used last

cacheVars == <<jump_destinations, lock, pc, call, d, ret, runs, hit,
               passed, n_calls, n_ins, last_ins, evicted, acq, fits, used_order>>

vars == <<shrink_exact, scanVars, lenVars, cacheVars>>

RECURSIVE SeqsUpTo(_, _)
SeqsUpTo(S, n) ==
  IF n = 0 THEN {<< >>}
  ELSE LET shorter == SeqsUpTo(S, n - 1)
       IN  shorter \cup {Append(s, b) : s \in {x \in shorter : Len(x) = n - 1}, b \in S}

Codes == SeqsUpTo(Bytes, MaxCodeLen)

ScanOff ==
  /\ scan = ScanStart(<< >>)
  /\ scan_pc = "off"
  /\ item = None
  /\ fl_start = None
  /\ fl_result = None

ScanInit ==
  /\ \E code \in Codes : scan = ScanStart(code)
  /\ scan_pc = "loop"
  /\ item = None
  /\ fl_start = None
  /\ fl_result = None

ScanStep ==
  /\ scan_pc = "loop"
  /\ scan.position < Len(scan.code)
  /\ scan' = ScanIter(scan)
  /\ UNCHANGED <<scan_pc, item, fl_start, fl_result>>
  /\ UNCHANGED <<shrink_exact, lenVars, cacheVars>>

ScanStore ==
  /\ scan_pc = "loop"
  /\ ~(scan.position < Len(scan.code))
  /\ scan' = ScanFinalStore(scan)
  /\ scan_pc' = "stored"
  /\ UNCHANGED <<item, fl_start, fl_result>>
  /\ UNCHANGED <<shrink_exact, lenVars, cacheVars>>

ScanReturn ==
  /\ scan_pc = "stored"
  /\ item' = Some(ScanItem(scan))
  /\ scan_pc' = "done"
  /\ UNCHANGED <<scan, fl_start, fl_result>>
  /\ UNCHANGED <<shrink_exact, lenVars, cacheVars>>

\* a caller asks the returned index for the length of the subroutine at s:
\* the start of the code or a recorded subroutine entry
FindLength(s) ==
  /\ scan_pc = "done"
  /\ s \in {0} \cup Unwrap(item).sub_entrypoint.bits
  /\ fl_start' = Some(s)
  /\ fl_result' = Some(find_length(Unwrap(item).sub_length, s, Unwrap(item).sub_entrypoint))
  /\ UNCHANGED <<scan, scan_pc, item>>
  /\ UNCHANGED <<shrink_exact, lenVars, cacheVars>>


ScanNext ==
  \/ ScanStep
  \/ ScanStore
  \/ ScanReturn
  \/ \E s \in 0..MaxCodeLen : FindLength(s)

----------------------------------------------------------------------------
(* LengthSpec *)

BoundarySets ==
  {[bits |-> B, cap |-> c] :
     B \in SUBSET (0..MaxOffset), c \in {0, BlockBits, 2 * BlockBits}}

LenOff ==
  /\ sl_index = with_capacity(0)
  /\ sl_start = 0
  /\ sl_length = 0
  /\ sl_bounds = with_capacity(0)
  /\ sl_result = None
  /\ sl_pc = "off"

LenInit ==
  /\ sl_index = SubLengthBits_new([i \in 1..(MaxOffset + 1) |-> STOP])
  /\ sl_start \in 0..MaxOffset
  /\ sl_length \in 0..MaxLength
  /\ sl_bounds \in {b \in BoundarySets : b.bits = {} \/ b.cap > MaxOf(b.bits)}
  /\ sl_result = None
  /\ sl_pc = "new"

Store ==
  /\ sl_pc = "new"
  /\ sl_index' = store(sl_index, sl_start, sl_length)
  /\ sl_pc' = "stored"
  /\ UNCHANGED <<sl_start, sl_length, sl_bounds, sl_result>>
  /\ UNCHANGED <<shrink_exact, scanVars, cacheVars>>

Find ==
  /\ sl_pc = "stored"
  /\ sl_result' = Some(find_length(sl_index, sl_start, sl_bounds))
  /\ sl_pc' = "found"
  /\ UNCHANGED <<sl_index, sl_start, sl_length, sl_bounds>>
  /\ UNCHANGED <<shrink_exact, scanVars, cacheVars>>

LenNext == Store \/ Find

----------------------------------------------------------------------------
(* CacheItem and its MallocSizeOf *)

\* Bits::size_of and SubLengths::size_of: capacity() * 8
Bits_size_of(b) == capacity(b) * 8

\* #[derive(MallocSizeOf)] on CacheItem: the sum over its fields
CacheItem_size_of(ci) ==
  Bits_size_of(ci.jump_destination) + Bits_size_of(ci.sub_entrypoint)
    + Bits_size_of(ci.sub_length)

----------------------------------------------------------------------------
(* memory_cache::MemoryLruCache: inner is the table in recency order, least *)
(* recently used first; each entry carries the number of the insert that    *)
(* wrote it                                                                 *)

MemoryLruCache_new(max_size) ==
  [inner |-> << >>, cur_size |-> 0, max_size |-> max_size]

HasKey(c, k) == \E i \in 1..Len(c.inner) : c.inner[i].key = k

EntryOf(c, k) == c.inner[CHOOSE i \in 1..Len(c.inner) : c.inner[i].key = k]

Without(inner, k) == SelectSeq(inner, LAMBDA e : e.key # k)

\* get_mut: the value under k, if any
get_mut(c, k) == IF HasKey(c, k) THEN Some(EntryOf(c, k).value) ELSE None

\* a lookup that leaves the recency order as it is
touch_Peek(c, k) == c

\* get_mut's effect on the table: the entry becomes the most recently used
touch(c, k) ==
  IF HasKey(c, k)
  THEN [c EXCEPT !.inner = Append(Without(c.inner, k), EntryOf(c, k))]
  ELSE c

RECURSIVE remove_lru_until_fits(_)
remove_lru_until_fits(c) ==
  IF c.cur_size > c.max_size /\ c.inner # << >>
  THEN remove_lru_until_fits(
         [c EXCEPT !.inner = Tail(@),
                   !.cur_size = @ - CacheItem_size_of(Head(c.inner).value)])
  ELSE c

\* insert without the eviction loop
insert_unbounded(c, k, v, n) ==
  [c EXCEPT !.inner = Append(Without(@, k), [key |-> k, value |-> v, stamp |-> n]),
            !.cur_size = @ + CacheItem_size_of(v)
                           - (IF HasKey(c, k)
                              THEN CacheItem_size_of(EntryOf(c, k).value) ELSE 0)]

\* insert: replace the entry under k, then evict least recently used entries
\* while the tracked size is over max_size
lru_insert(c, k, v, n) == remove_lru_until_fits(insert_unbounded(c, k, v, n))

Keys(c) == {c.inner[i].key : i \in 1..Len(c.inner)}

----------------------------------------------------------------------------
(* Spec: SharedCache::jump_and_sub_destinations called from several threads *)

Threads == {"t1", "t2"}

KECCAK_EMPTY == "keccak_empty"
Hashes == {"h1", "h2"}
AllHashes == Hashes \cup {KECCAK_EMPTY}

\* the code_hash arguments: None or Some(hash)
HashArgs == {None} \cup {Some(h) : h \in AllHashes}

\* the codes passed: empty code, a jump destination, a push hiding one
CacheCodes == {<< >>, <<JUMPDEST>>, <<PUSH1, JUMPDEST>>}

\* the max_size values SharedCache::new is given
Budgets == {512, 1536}

CacheOff ==
  /\ jump_destinations = MemoryLruCache_new(0)
  /\ lock = None
  /\ pc = [t \in Threads |-> "off"]
  /\ call = [t \in Threads |-> [code_hash |-> None, code |-> << >>]]
  /\ d = [t \in Threads |-> None]
  /\ ret = [t \in Threads |-> None]
  /\ runs = [t \in Threads |-> 0]
  /\ hit = [t \in Threads |-> FALSE]
  /\ passed = [h \in AllHashes |-> {}]
  /\ n_calls = 0
  /\ n_ins = 0
  /\ last_ins = [h \in AllHashes |-> 0]
  /\ evicted = {}
  /\ acq = [t \in Threads |-> 0]
  /\ fits = FALSE
  /\ used_order = << >>

\* SharedCache::new(max_size)
CacheInit ==
  /\ \E max_size \in Budgets : jump_destinations = MemoryLruCache_new(max_size)
  /\ lock = None
  /\ pc = [t \in Threads |-> "idle"]
  /\ call = [t \in Threads |-> [code_hash |-> None, code |-> << >>]]
  /\ d = [t \in Threads |-> None]
  /\ ret = [t \in Threads |-> None]
  /\ runs = [t \in Threads |-> 0]
  /\ hit = [t \in Threads |-> FALSE]
  /\ passed = [h \in AllHashes |-> {}]
  /\ n_calls = 0
  /\ n_ins = 0
  /\ last_ins = [h \in AllHashes |-> 0]
  /\ evicted = {}
  /\ acq = [t \in Threads |-> 0]
  /\ fits = FALSE
  /\ used_order = << >>

\* what a call does first with its code_hash, with the empty-code test left out
Dispatch_NoBypass(code_hash) ==
  IF code_hash = None THEN "analyze" ELSE "lock_get"

\* what a call does first with its code_hash: no hash, the empty-code hash,
\* any other hash
Dispatch(code_hash) ==
  IF code_hash = None THEN "analyze"
  ELSE IF Unwrap(code_hash) = KECCAK_EMPTY THEN "bypass"
  ELSE "lock_get"

\* seq with h moved to its end (appended when absent)
MoveLast(seq, h) == Append(SelectSeq(seq, LAMBDA x : x # h), h)

\* thread t enters jump_and_sub_destinations(code_hash, code)
Enter(t, code_hash, code) ==
  /\ pc[t] \in {"idle", "done"}
  /\ n_calls' = n_calls + 1
  /\ call' = [call EXCEPT ![t] = [code_hash |-> code_hash, code |-> code]]
  /\ pc' = [pc EXCEPT ![t] = Dispatch(code_hash)]
  /\ d' = [d EXCEPT ![t] = None]
  /\ ret' = [ret EXCEPT ![t] = None]
  /\ runs' = [runs EXCEPT ![t] = 0]
  /\ hit' = [hit EXCEPT ![t] = FALSE]
  /\ passed' = IF code_hash = None THEN passed
               ELSE [passed EXCEPT ![Unwrap(code_hash)] = @ \cup {code}]
  /\ acq' = [acq EXCEPT ![t] = 0]
  /\ UNCHANGED <<jump_destinations, lock, n_ins, last_ins, evicted, fits, used_order>>
  /\ UNCHANGED <<shrink_exact, scanVars, lenVars>>

\* a call of jump_and_sub_destinations, while fewer than MaxCalls were made
Call(t, code_hash, code) ==
  /\ n_calls < MaxCalls
  /\ Enter(t, code_hash, code)

\* code_hash == KECCAK_EMPTY: compute and return
Bypass(t) ==
  /\ pc[t] = "bypass"
  /\ ret' = [ret EXCEPT ![t] = Some(find_jump_and_sub_destinations(call[t].code))]
  /\ runs' = [runs EXCEPT ![t] = @ + 1]
  /\ pc' = [pc EXCEPT ![t] = "done"]
  /\ UNCHANGED <<jump_destinations, lock, call, d, hit, passed, n_calls, n_ins,
                 last_ins, evicted>>
  /\ UNCHANGED <<acq, fits, used_order>>
  /\ UNCHANGED <<shrink_exact, scanVars, lenVars>>

\* self.jump_destinations.lock() of the lookup
AcquireGet(t) ==
  /\ pc[t] = "lock_get"
  /\ lock = None
  /\ lock' = Some(t)
  /\ pc' = [pc EXCEPT ![t] = "get"]
  /\ UNCHANGED <<jump_destinations, call, d, ret, runs, hit, passed, n_calls,
                 n_ins, last_ins, evicted>>
  /\ acq' = [acq EXCEPT ![t] = @ + 1]
  /\ UNCHANGED <<fits, used_order>>
  /\ UNCHANGED <<shrink_exact, scanVars, lenVars>>

\* a hit that runs the analyzer as well
GetHit_Recompute(t) ==
  /\ pc[t] = "get"
  /\ lock = Some(t)
  /\ get_mut(jump_destinations, Unwrap(call[t].code_hash)) # None
  /\ ret' = [ret EXCEPT ![t] = get_mut(jump_destinations, Unwrap(call[t].code_hash))]
  /\ jump_destinations' = touch(jump_destinations, Unwrap(call[t].code_hash))
  /\ hit' = [hit EXCEPT ![t] = TRUE]
  /\ runs' = [runs EXCEPT ![t] = @ + 1]
  /\ lock' = None
  /\ pc' = [pc EXCEPT ![t] = "done"]
  /\ UNCHANGED <<call, d, passed, n_calls, n_ins, last_ins, evicted>>
  /\ used_order' = MoveLast(used_order, Unwrap(call[t].code_hash))
  /\ UNCHANGED <<acq, fits>>
  /\ UNCHANGED <<shrink_exact, scanVars, lenVars>>

\* a hit that moves the sets out of the entry, leaving empty ones behind
GetHit_Take(t) ==
  /\ pc[t] = "get"
  /\ lock = Some(t)
  /\ get_mut(jump_destinations, Unwrap(call[t].code_hash)) # None
  /\ ret' = [ret EXCEPT ![t] = get_mut(jump_destinations, Unwrap(call[t].code_hash))]
  /\ jump_destinations' =
       [jump_destinations EXCEPT !.inner =
          Append(Without(@, Unwrap(call[t].code_hash)),
                 [EntryOf(jump_destinations, Unwrap(call[t].code_hash))
                    EXCEPT !.value = find_jump_and_sub_destinations(<< >>)])]
  /\ hit' = [hit EXCEPT ![t] = TRUE]
  /\ lock' = None
  /\ pc' = [pc EXCEPT ![t] = "done"]
  /\ UNCHANGED <<call, d, runs, passed, n_calls, n_ins, last_ins, evicted>>
  /\ used_order' = MoveLast(used_order, Unwrap(call[t].code_hash))
  /\ UNCHANGED <<acq, fits>>
  /\ UNCHANGED <<shrink_exact, scanVars, lenVars>>

\* get_mut finds the hash: return clones of the entry; the guard is dropped
GetHit(t) ==
  /\ pc[t] = "get"
  /\ lock = Some(t)
  /\ get_mut(jump_destinations, Unwrap(call[t].code_hash)) # None
  /\ ret' = [ret EXCEPT ![t] = get_mut(jump_destinations, Unwrap(call[t].code_hash))]
  /\ jump_destinations' = touch(jump_destinations, Unwrap(call[t].code_hash))
  /\ hit' = [hit EXCEPT ![t] = TRUE]
  /\ lock' = None
  /\ pc' = [pc EXCEPT ![t] = "done"]
  /\ UNCHANGED <<call, d, runs, passed, n_calls, n_ins, last_ins, evicted>>
  /\ used_order' = MoveLast(used_order, Unwrap(call[t].code_hash))
  /\ UNCHANGED <<acq, fits>>
  /\ UNCHANGED <<shrink_exact, scanVars, lenVars>>

\* a miss whose guard lives on after the if let
GetMiss_KeepGuard(t) ==
  /\ pc[t] = "get"
  /\ lock = Some(t)
  /\ get_mut(jump_destinations, Unwrap(call[t].code_hash)) = None
  /\ pc' = [pc EXCEPT ![t] = "analyze"]
  /\ UNCHANGED <<jump_destinations, lock, call, d, ret, runs, hit, passed, n_calls,
                 n_ins, last_ins, evicted>>
  /\ UNCHANGED <<acq, fits, used_order>>
  /\ UNCHANGED <<shrink_exact, scanVars, lenVars>>

\* get_mut finds nothing: the guard is dropped at the end of the if let
GetMiss(t) ==
  /\ pc[t] = "get"
  /\ lock = Some(t)
  /\ get_mut(jump_destinations, Unwrap(call[t].code_hash)) = None
  /\ lock' = None
  /\ pc' = [pc EXCEPT ![t] = "analyze"]
  /\ UNCHANGED <<jump_destinations, call, d, ret, runs, hit, passed, n_calls,
                 n_ins, last_ins, evicted>>
  /\ UNCHANGED <<acq, fits, used_order>>
  /\ UNCHANGED <<shrink_exact, scanVars, lenVars>>

\* let d = Self::find_jump_and_sub_destinations(code)
Analyze(t) ==
  /\ pc[t] = "analyze"
  /\ d' = [d EXCEPT ![t] = Some(find_jump_and_sub_destinations(call[t].code))]
  /\ runs' = [runs EXCEPT ![t] = @ + 1]
  /\ pc' = [pc EXCEPT ![t] = IF call[t].code_hash # None THEN "lock_insert" ELSE "return"]
  /\ UNCHANGED <<jump_destinations, lock, call, ret, hit, passed, n_calls, n_ins,
                 last_ins, evicted>>
  /\ UNCHANGED <<acq, fits, used_order>>
  /\ UNCHANGED <<shrink_exact, scanVars, lenVars>>

\* self.jump_destinations.lock() of the insert
AcquireInsert(t) ==
  /\ pc[t] = "lock_insert"
  /\ lock = None
  /\ lock' = Some(t)
  /\ pc' = [pc EXCEPT ![t] = "insert"]
  /\ UNCHANGED <<jump_destinations, call, d, ret, runs, hit, passed, n_calls,
                 n_ins, last_ins, evicted>>
  /\ acq' = [acq EXCEPT ![t] = @ + 1]
  /\ UNCHANGED <<fits, used_order>>
  /\ UNCHANGED <<shrink_exact, scanVars, lenVars>>

\* the insert with every hash mapped to one key
Inserted_SharedKey(t, n) ==
  lru_insert(jump_destinations, "h1", Unwrap(d[t]), n)

\* the insert without eviction
Inserted_NoEvict(t, n) ==
  insert_unbounded(jump_destinations, Unwrap(call[t].code_hash), Unwrap(d[t]), n)

\* the insert that keeps an entry already under the hash
Inserted_IfAbsent(t, n) ==
  IF HasKey(jump_destinations, Unwrap(call[t].code_hash))
  THEN jump_destinations
  ELSE lru_insert(jump_destinations, Unwrap(call[t].code_hash), Unwrap(d[t]), n)

\* the insert that stores nothing
Inserted_Dropped(t, n) == jump_destinations

\* the table after thread t's insert(*code_hash, d.clone()), numbered n
Inserted(t, n) ==
  lru_insert(jump_destinations, Unwrap(call[t].code_hash), Unwrap(d[t]), n)

\* insert(*code_hash, d.clone()); the guard is dropped at the end of the statement
Insert(t) ==
  /\ pc[t] = "insert"
  /\ lock = Some(t)
  /\ n_ins' = n_ins + 1
  /\ jump_destinations' = Inserted(t, n_ins + 1)
  /\ last_ins' = [last_ins EXCEPT ![Unwrap(call[t].code_hash)] = n_ins + 1]
  /\ evicted' = evicted \cup
       ((Keys(jump_destinations) \cup {Unwrap(call[t].code_hash)})
          \ Keys(jump_destinations'))
  /\ lock' = None
  /\ pc' = [pc EXCEPT ![t] = "return"]
  /\ UNCHANGED <<call, d, ret, runs, hit, passed, n_calls>>
  /\ fits' = (CacheItem_size_of(Unwrap(d[t])) <= jump_destinations.max_size)
  /\ used_order' = MoveLast(used_order, Unwrap(call[t].code_hash))
  /\ UNCHANGED acq
  /\ UNCHANGED <<shrink_exact, scanVars, lenVars>>

\* (d.jump_destination.0, d.sub_entrypoint.0, d.sub_length.0)
Return(t) ==
  /\ pc[t] = "return"
  /\ ret' = [ret EXCEPT ![t] = d[t]]
  /\ pc' = [pc EXCEPT ![t] = "done"]
  /\ UNCHANGED <<jump_destinations, lock, call, d, runs, hit, passed, n_calls,
                 n_ins, last_ins, evicted>>
  /\ UNCHANGED <<acq, fits, used_order>>
  /\ UNCHANGED <<shrink_exact, scanVars, lenVars>>

CacheNext ==
  \/ \E t \in Threads, h \in HashArgs, c \in CacheCodes : Call(t, h, c)
  \/ \E t \in Threads : Bypass(t)
  \/ \E t \in Threads : AcquireGet(t)
  \/ \E t \in Threads : GetHit(t)
  \/ \E t \in Threads : GetMiss(t)
  \/ \E t \in Threads : Analyze(t)
  \/ \E t \in Threads : AcquireInsert(t)
  \/ \E t \in Threads : Insert(t)
  \/ \E t \in Threads : Return(t)

----------------------------------------------------------------------------
(* LruSpec: one thread calling with three hashes, so that an insert has two *)
(* entries to choose from                                                   *)

LruThread == "t1"
LruHashes == Hashes \cup {"h3"}

\* SharedCache::new(max_size), with LruThread the only caller
LruInit ==
  /\ \E max_size \in Budgets : jump_destinations = MemoryLruCache_new(max_size)
  /\ lock = None
  /\ pc = [t \in Threads |-> IF t = LruThread THEN "idle" ELSE "off"]
  /\ call = [t \in Threads |-> [code_hash |-> None, code |-> << >>]]
  /\ d = [t \in Threads |-> None]
  /\ ret = [t \in Threads |-> None]
  /\ runs = [t \in Threads |-> 0]
  /\ hit = [t \in Threads |-> FALSE]
  /\ passed = [h \in LruHashes |-> {}]
  /\ n_calls = 0
  /\ n_ins = 0
  /\ last_ins = [h \in LruHashes |-> 0]
  /\ evicted = {}
  /\ acq = [t \in Threads |-> 0]
  /\ fits = FALSE
  /\ used_order = << >>

\* a call of jump_and_sub_destinations(Some(h), code) by LruThread
LruCall(h, code) ==
  /\ n_calls < MaxLruCalls
  /\ Enter(LruThread, Some(h), code)

LruNext ==
  \/ \E h \in LruHashes, c \in CacheCodes : LruCall(h, c)
  \/ AcquireGet(LruThread)
  \/ GetHit(LruThread)
  \/ GetMiss(LruThread)
  \/ Analyze(LruThread)
  \/ AcquireInsert(LruThread)
  \/ Insert(LruThread)
  \/ Return(LruThread)

----------------------------------------------------------------------------
(* The specifications *)

ScanSpecInit == shrink_exact \in BOOLEAN /\ ScanInit /\ LenOff /\ CacheOff

ScanSpec == ScanSpecInit /\ [][ScanNext]_vars

LengthSpecInit == shrink_exact \in BOOLEAN /\ ScanOff /\ LenInit /\ CacheOff

LengthSpec == LengthSpecInit /\ [][LenNext]_vars

Init == shrink_exact \in BOOLEAN /\ ScanOff /\ LenOff /\ CacheInit

Spec == Init /\ [][CacheNext]_vars

LruSpecInit == shrink_exact \in BOOLEAN /\ ScanOff /\ LenOff /\ LruInit

LruSpec == LruSpecInit /\ [][LruNext]_vars

\* FairSpec: a scan, or two threads calling the cache, run by a fair scheduler.
\* The calls pass the empty code: what a call does with the lock does not
\* depend on the code, and the scan of every code is the other half.

FairInit == ScanSpecInit \/ Init

\* a call of jump_and_sub_destinations(code_hash, &[])
FairCall(t, code_hash) ==
  /\ n_calls < MaxFairCalls
  /\ Enter(t, code_hash, << >>)

FairNext ==
  \/ ScanNext
  \/ \E t \in Threads, h \in HashArgs : FairCall(t, h)
  \/ \E t \in Threads : Bypass(t)
  \/ \E t \in Threads : AcquireGet(t)
  \/ \E t \in Threads : GetHit(t)
  \/ \E t \in Threads : GetMiss(t)
  \/ \E t \in Threads : Analyze(t)
  \/ \E t \in Threads : AcquireInsert(t)
  \/ \E t \in Threads : Insert(t)
  \/ \E t \in Threads : Return(t)

\* the steps of thread t that wait for nothing
Runs(t) ==
  Bypass(t) \/ GetHit(t) \/ GetMiss(t) \/ Analyze(t) \/ Insert(t) \/ Return(t)

\* a running thread keeps executing; a thread blocked in lock() gets the
\* mutex if the mutex is free again and again (parking_lot's eventual fairness)
Fairness ==
  /\ WF_vars(ScanStep \/ ScanStore \/ ScanReturn)
  /\ \A t \in Threads : WF_vars(Runs(t))
  /\ \A t \in Threads : SF_vars(AcquireGet(t) \/ AcquireInsert(t))

FairSpec == FairInit /\ [][FairNext]_vars /\ Fairness

----------------------------------------------------------------------------
(* Definitions the properties are stated with *)

\* equality by value of two CacheItems: the same bits in each of the three sets
SameArtifacts(a, b) ==
  /\ a.jump_destination.bits = b.jump_destination.bits
  /\ a.sub_entrypoint.bits = b.sub_entrypoint.bits
  /\ a.sub_length.bits = b.sub_length.bits

\* every call that passed a hash passed the same code with it
Consistent == \A h \in AllHashes : Cardinality(passed[h]) <= 1

RECURSIVE Footprint(_)
Footprint(inner) ==
  IF inner = << >> THEN 0
  ELSE CacheItem_size_of(Head(inner).value) + Footprint(Tail(inner))

\* the immediate bytes a push instruction declares (0 for any other byte)
PushWidth(b) == IF b >= PUSH1 /\ b <= PUSH32 THEN b - PUSH1 + 1 ELSE 0

\* the instruction offsets: from p, stepping 1 + push width
RECURSIVE ScannedFrom(_, _)
ScannedFrom(code, p) ==
  IF p >= Len(code) THEN {}
  ELSE {p} \cup ScannedFrom(code, p + 1 + PushWidth(code[p + 1]))

ScannedOffsets(code) == ScannedFrom(code, 0)

\* the offsets within the k bytes after a scanned push of width k
PushData(code) ==
  {q \in 0..(Len(code) - 1) :
     \E p \in ScannedOffsets(code) : p < q /\ q <= p + PushWidth(code[p + 1])}

RECURSIVE BitWidth(_)
BitWidth(n) == IF n = 0 THEN 0 ELSE 1 + BitWidth(n \div 2)

MinOf(S) == CHOOSE m \in S : \A x \in S : m <= x

\* the boundaries after start
After(start, bits) == {b \in bits : b > start}

\* the binary width of length fits before the next boundary after start
Fits(start, length, bits) ==
  /\ After(start, bits) # {}
  /\ start + BitWidth(length) <= MinOf(After(start, bits))

----------------------------------------------------------------------------
(* Properties *)

\* C1: provided every call passing a hash passes the same code with it, a
\* call that finds its hash in the table returns artifacts equal by value to
\* a fresh find_jump_and_sub_destinations of its code.
C1_HitReturnsFresh ==
  \A t \in Threads :
    (pc[t] = "done" /\ hit[t] /\ Consistent)
      => SameArtifacts(Unwrap(ret[t]), find_jump_and_sub_destinations(call[t].code))

\* a hit, after an eviction, on an entry with a jump destination
C1_Witness ==
  \E t \in Threads :
    /\ pc[t] = "done" /\ hit[t] /\ Consistent
    /\ evicted # {}
    /\ Unwrap(ret[t]).jump_destination.bits # {}

\* C2: in every reachable state the footprints of the entries retained in
\* the table sum to at most max_size.
C2_BudgetInvariant ==
  Footprint(jump_destinations.inner) <= jump_destinations.max_size

\* an insert has evicted an entry and an entry with a footprint is retained
C2_Witness ==
  /\ evicted # {}
  /\ Footprint(jump_destinations.inner) > 0

\* C3: store(start, length) on an empty index followed by
\* find_length(start, boundaries) returns length, whenever the binary width
\* of length fits before the next boundary after start.
C3_RoundTrip ==
  (sl_pc = "found" /\ Fits(sl_start, sl_length, sl_bounds.bits))
    => sl_result = Some(sl_length)

\* C4: for a recorded subroutine entry s with a later recorded entry, t the
\* next one, find_length(s, entries) on the produced index returns t - s.
C4_SubroutineLengths ==
  \A s \in fl_start :
    (scan_pc = "done" /\ s \in Unwrap(item).sub_entrypoint.bits
       /\ After(s, Unwrap(item).sub_entrypoint.bits) # {})
      => fl_result = Some(MinOf(After(s, Unwrap(item).sub_entrypoint.bits)) - s)

\* C5: no offset within the immediate bytes of a scanned push is in the
\* jump-destination set or in the subroutine-entry set, during the scan and
\* in the CacheItem returned.
C5_DataNotCode ==
  /\ PushData(scan.code) \cap (scan.jump_dests.bits \cup scan.sub_entrypoints.bits) = {}
  /\ \A ci \in item :
       PushData(scan.code) \cap (ci.jump_destination.bits \cup ci.sub_entrypoint.bits) = {}

\* the scan is over a code with a JUMPDEST or BEGINSUB byte in push data,
\* and has found a jump destination
C5_Witness ==
  /\ scan_pc = "done"
  /\ \E q \in PushData(scan.code) : scan.code[q + 1] \in {JUMPDEST, BEGINSUB}
  /\ Unwrap(item).jump_destination.bits # {}

\* C6: the jump-destination set is exactly the instruction offsets holding
\* JUMPDEST and the subroutine-entry set exactly those holding BEGINSUB; an
\* unrecognized byte read at p moves the cursor to p + 1.
C6_ExactMarkers ==
  /\ \A ci \in item :
       /\ ci.jump_destination.bits =
            {p \in ScannedOffsets(scan.code) : scan.code[p + 1] = JUMPDEST}
       /\ ci.sub_entrypoint.bits =
            {p \in ScannedOffsets(scan.code) : scan.code[p + 1] = BEGINSUB}
  /\ \A p \in scan.reads :
       from_u8(scan.code[p + 1]) = None
         => (scan.position = p + 1 \/ p + 1 \in scan.reads)

\* the scan has passed an unrecognized byte and found both kinds of marker
\* after it
C6_Witness ==
  /\ scan_pc = "done"
  /\ \E p \in scan.reads :
       /\ from_u8(scan.code[p + 1]) = None
       /\ \E q \in Unwrap(item).jump_destination.bits : q > p
       /\ \E q \in Unwrap(item).sub_entrypoint.bits : q > p

\* C7: a step of a call whose code_hash is None or the empty-code hash
\* leaves the table as it is, and the call returns the artifacts of a fresh
\* analysis of its code.
C7_BypassFrame ==
  [][\A t \in Threads :
       (pc'[t] # pc[t] /\ call'[t].code_hash \in {None, Some(KECCAK_EMPTY)})
         => /\ jump_destinations' = jump_destinations
            /\ pc'[t] = "done"
                 => SameArtifacts(Unwrap(ret'[t]),
                                  find_jump_and_sub_destinations(call'[t].code))]_vars

\* one thread has returned from a call with the empty-code hash, the other
\* from a call without a hash, while the table holds an entry
C7_Witness ==
  /\ jump_destinations.inner # << >>
  /\ \E t \in Threads :
       pc[t] = "done" /\ call[t].code_hash = Some(KECCAK_EMPTY) /\ call[t].code # << >>
  /\ \E t \in Threads : pc[t] = "done" /\ call[t].code_hash = None

\* C8: a call runs find_jump_and_sub_destinations at most once: not at all
\* when it finds its hash in the table, once otherwise.
C8_AnalyzerAtMostOnce ==
  \A t \in Threads :
    /\ runs[t] <= 1
    /\ pc[t] = "done" => runs[t] = (IF hit[t] THEN 0 ELSE 1)

\* one thread has returned from a hit, the other from a miss
C8_Witness ==
  /\ \E t \in Threads : pc[t] = "done" /\ hit[t] /\ runs[t] = 0
  /\ \E t \in Threads :
       pc[t] = "done" /\ ~hit[t] /\ runs[t] = 1 /\ call[t].code_hash \in {Some(h) : h \in Hashes}

\* two threads have returned from calls with the same hash and code that
\* both missed
Raced(t, u) ==
  /\ t # u
  /\ pc[t] = "done" /\ pc[u] = "done"
  /\ call[t] = call[u]
  /\ call[t].code_hash \in {Some(h) : h \in Hashes}
  /\ ~hit[t] /\ ~hit[u]

\* C9: when two threads have raced on the same missing hash with the same
\* code, each returns the analysis of the code, and the table holds at most
\* one entry under the hash, written by the last insert under it, with the
\* tracked size the sum of the footprints of the entries retained.
C9_RaceTolerated ==
  \A t, u \in Threads :
    Raced(t, u) =>
      LET h == Unwrap(call[t].code_hash)
          fresh == find_jump_and_sub_destinations(call[t].code)
      IN  /\ SameArtifacts(Unwrap(ret[t]), fresh)
          /\ SameArtifacts(Unwrap(ret[u]), fresh)
          /\ Cardinality({i \in 1..Len(jump_destinations.inner) :
                            jump_destinations.inner[i].key = h}) <= 1
          /\ HasKey(jump_destinations, h)
               => EntryOf(jump_destinations, h).stamp = last_ins[h]
          /\ jump_destinations.cur_size = Footprint(jump_destinations.inner)

\* only two calls were made, both missed and both inserted, and the entry is
\* in the table: the second lookup came before the first insert
C9_Witness ==
  \E t, u \in Threads :
    /\ Raced(t, u)
    /\ n_calls = 2 /\ n_ins = 2
    /\ HasKey(jump_destinations, Unwrap(call[t].code_hash))
    /\ jump_destinations.cur_size > 0

\* C10: the length stored after the scan loop for the final subroutine is
\* len(code) - sub_start.
C10_FinalStoreLength ==
  scan_pc \in {"stored", "done"}
    => scan.stores[Len(scan.stores)] = <<scan.sub_start, Len(scan.code) - scan.sub_start>>

\* the bits store(start, length) sets: start + i for every bit i set in length
StoredBits(start, length) ==
  {start + i : i \in {k \in 0..(BitWidth(length) - 1) : (length \div 2^k) % 2 = 1}}

\* C11: when the first recorded subroutine entry is at p > 0,
\* find_length(0, entry set) on the produced index returns p.
C11_LeadingSubroutine ==
  (scan_pc = "done" /\ fl_start = Some(0)
     /\ Unwrap(item).sub_entrypoint.bits # {}
     /\ MinOf(Unwrap(item).sub_entrypoint.bits) > 0)
    => fl_result = Some(MinOf(Unwrap(item).sub_entrypoint.bits))

\* find_length(0, ..) was asked of a code whose first entry is at 2 or later,
\* with another entry after it
C11_Witness ==
  /\ scan_pc = "done" /\ fl_start = Some(0)
  /\ Unwrap(item).sub_entrypoint.bits # {}
  /\ MinOf(Unwrap(item).sub_entrypoint.bits) >= 2
  /\ Cardinality(Unwrap(item).sub_entrypoint.bits) >= 2

\* C12: for the last subroutine, starting at the last recorded entry (or at
\* 0 when there is none), find_length on the returned index and entry set
\* returns the length the final store stored.
C12_LastSubroutine ==
  \A s \in fl_start :
    (scan_pc = "done" /\ s = scan.sub_start)
      => fl_result = Some(scan.stores[Len(scan.stores)][2])

\* C15: every read of code[position] is within the code, and every offset in
\* the jump-destination set and in the subroutine-entry set is in [0, len).
C15_ReadsInBounds ==
  /\ scan.reads \subseteq 0..(Len(scan.code) - 1)
  /\ scan.jump_dests.bits \subseteq 0..(Len(scan.code) - 1)
  /\ scan.sub_entrypoints.bits \subseteq 0..(Len(scan.code) - 1)
  /\ \A ci \in item :
       /\ ci.jump_destination.bits \subseteq 0..(Len(scan.code) - 1)
       /\ ci.sub_entrypoint.bits \subseteq 0..(Len(scan.code) - 1)

\* the scan is over: the last push ran past the end of the code, and a jump
\* destination was recorded
C15_Witness ==
  /\ scan_pc = "done"
  /\ scan.position > Len(scan.code)
  /\ scan.reads # {}
  /\ Unwrap(item).jump_destination.bits # {}

\* C18: every store(sub_start, length) made by the analysis writes only bits
\* in [sub_start, sub_start + length), the bits of two stores never overlap,
\* and the bitmap holds exactly the bits of the stores made.
C18_StoresDisjoint ==
  /\ \A i \in 1..Len(scan.stores) :
       /\ BitWidth(scan.stores[i][2]) <= scan.stores[i][2]
       /\ StoredBits(scan.stores[i][1], scan.stores[i][2])
            \subseteq scan.stores[i][1]..(scan.stores[i][1] + scan.stores[i][2] - 1)
  /\ \A i, j \in 1..Len(scan.stores) :
       i # j => StoredBits(scan.stores[i][1], scan.stores[i][2])
                  \cap StoredBits(scan.stores[j][1], scan.stores[j][2]) = {}
  /\ scan.sub_lengths.bits =
       UNION {StoredBits(scan.stores[i][1], scan.stores[i][2]) : i \in 1..Len(scan.stores)}

\* two or more stores were made, none of length 0 and one of two bits or more
C18_Witness ==
  /\ scan_pc = "done"
  /\ Len(scan.stores) >= 2
  /\ \A i \in 1..Len(scan.stores) : scan.stores[i][2] >= 1
  /\ \E i \in 1..Len(scan.stores) : scan.stores[i][2] >= 2

\* C20: the jump-destination set and the subroutine-entry set are disjoint.
C20_SetsDisjoint ==
  /\ scan.jump_dests.bits \cap scan.sub_entrypoints.bits = {}
  /\ \A ci \in item : ci.jump_destination.bits \cap ci.sub_entrypoint.bits = {}

\* the analysis returned a jump destination and a subroutine entry
C20_Witness ==
  /\ scan_pc = "done"
  /\ Unwrap(item).jump_destination.bits # {}
  /\ Unwrap(item).sub_entrypoint.bits # {}


\* the threads inside a table operation: the lookup or the insert
InTable == {t \in Threads : pc[t] \in {"get", "insert"}}

\* a step that changes the table is a step of the thread holding the lock
TableStep ==
  jump_destinations' # jump_destinations =>
    \E t \in Threads : lock = Some(t) /\ pc[t] \in {"get", "insert"} /\ pc'[t] # pc[t]

LockState ==
  /\ Cardinality(InTable) <= 1
  /\ \A t \in Threads : t \in InTable <=> lock = Some(t)
  /\ \A t \in Threads : pc[t] \in {"analyze", "bypass"} => lock # Some(t)
  /\ \A t \in Threads : pc[t] \in {"lock_get", "lock_insert"} => lock # Some(t)
  /\ \A t \in Threads : acq[t] <= 2

\* C13: at most one thread at a time is inside a table operation, and it is
\* the thread holding the lock; the table changes only in a step of that
\* thread; no thread holds the lock while it runs the analyzer; a thread about
\* to lock does not hold the lock, and a call locks at most twice
C13_LockDiscipline == [](LockState) /\ [][TableStep]_vars

\* a call that missed is inside its insert, holding its second lock, while
\* the other thread waits for the lock
C13_Witness ==
  \E t, u \in Threads :
    /\ t # u
    /\ pc[t] = "insert" /\ acq[t] = 2 /\ lock = Some(t)
    /\ pc[u] \in {"lock_get", "lock_insert"}


\* thread u finishes its lookup in this step
LookupBy(u) == pc[u] = "get" /\ pc'[u] # "get"

\* the last insert was made under h and its value was within max_size
LastInsertKept(h) == n_ins > 0 /\ last_ins[h] = n_ins /\ fits

\* C19: a lookup under the hash of the last insert, whose value was within the
\* byte budget, is a hit: the call returns the stored artifacts in this step,
\* without invoking the analyzer
C19_MissPopulates ==
  [][\A u \in Threads :
       (LookupBy(u) /\ LastInsertKept(Unwrap(call[u].code_hash))) =>
         /\ pc'[u] = "done"
         /\ hit'[u]
         /\ runs'[u] = 0
         /\ ret'[u] = get_mut(jump_destinations, Unwrap(call[u].code_hash))
         /\ ret'[u] # None]_vars

\* a thread's call missed, inserted and returned; its next call under the same
\* hash, with no insert in between, was a hit that did not run the analyzer
C19_Witness ==
  \E u \in Threads :
    /\ pc[u] = "done" /\ hit[u] /\ runs[u] = 0
    /\ LastInsertKept(Unwrap(call[u].code_hash))
    /\ n_calls >= 2
    /\ \A t \in Threads \ {u} : pc[t] = "idle"


\* what a caller was handed stays as it is while the caller has it
RetStable ==
  \A t \in Threads : (pc[t] = "done" /\ pc'[t] = "done") => ret'[t] = ret[t]

\* an entry that is neither evicted nor replaced in this step keeps its value
StoredStable ==
  \A k \in Keys(jump_destinations) \cap Keys(jump_destinations') :
    EntryOf(jump_destinations', k).stamp = EntryOf(jump_destinations, k).stamp
      => EntryOf(jump_destinations', k).value = EntryOf(jump_destinations, k).value

\* C17: no step of any thread (a hit, an insert under the same or another
\* hash, an eviction) changes the artifacts a finished call returned, and the
\* value stored under a key stays the same from its insert until its eviction
\* or replacement
C17_ArtifactsImmutable == [][RetStable /\ StoredStable]_vars

\* a call that hit has returned artifacts with a jump destination, and the
\* entry it read them from has since been evicted
C17_Witness ==
  \E t \in Threads :
    /\ pc[t] = "done" /\ hit[t]
    /\ ret[t] # None /\ Unwrap(ret[t]).jump_destination.bits # {}
    /\ Unwrap(call[t].code_hash) \in evicted
    /\ ~HasKey(jump_destinations, Unwrap(call[t].code_hash))


\* the place of hash h in seq
PosIn(seq, h) == CHOOSE i \in 1..Len(seq) : seq[i] = h

\* after a hit the entry read is the last of the table's recency order
HitMarks ==
  \A t \in Threads :
    (pc[t] = "get" /\ pc'[t] = "done") =>
      jump_destinations'.inner[Len(jump_destinations'.inner)].key
        = Unwrap(call[t].code_hash)

\* every entry that leaves the table in this step was last inserted or hit
\* before every entry that stays
EvictsOldest ==
  \A e \in Keys(jump_destinations) \ Keys(jump_destinations'),
     r \in Keys(jump_destinations') :
    PosIn(used_order', r) > PosIn(used_order', e)

\* C16: a hit makes its entry the most recently used one, and an insert never
\* evicts an entry inserted or hit more recently than an entry it keeps
C16_LruOrder == [][HitMarks /\ EvictsOldest]_vars

\* the table keeps an entry r inserted before an entry e that it has evicted:
\* r was hit after e's insert
C16_Witness ==
  \E r \in Keys(jump_destinations), e \in evicted \ Keys(jump_destinations) :
    /\ 0 < last_ins[r] /\ last_ins[r] < last_ins[e]
    /\ Len(jump_destinations.inner) = 2


\* each iteration of the scan loop moves position forward
PositionIncreases ==
  (scan_pc = "loop" /\ scan' # scan /\ scan_pc' = "loop")
    => scan'.position > scan.position

\* a thread inside a call
InCall(t) == pc[t] \notin {"off", "idle", "done"}

\* C14: every iteration of the scan loop increases position, and the scan,
\* with the stores it makes, reaches its return with a CacheItem; a
\* find_length query has a result; under fair scheduling every call returns,
\* and what it returns is a triple
C14_EveryCallReturns ==
  /\ [][PositionIncreases]_vars
  /\ (scan_pc = "loop") ~> (scan_pc = "done" /\ item # None)
  /\ [](fl_start # None => fl_result # None)
  /\ \A t \in Threads : InCall(t) ~> (pc[t] = "done" /\ ret[t] # None)
  /\ [](\A t \in Threads : pc[t] = "done" => ret[t] # None)

\* both threads called with the same hash, both missed, both took the lock
\* twice, and both have returned
C14_Witness ==
  /\ \A t \in Threads : pc[t] = "done" /\ ret[t] # None /\ acq[t] = 2
  /\ \A t, u \in Threads : call[t].code_hash = call[u].code_hash

====
